---- MODULE Spec2Model ----
(***************************************************************************)
(* Model of the HVAC graph reduction of bim2sim: ports and their           *)
(* connections (ifc2python/element.py), the element graph                  *)
(* (ifc2python/hvac/hvac_graph.py), the aggregations                       *)
(* (kernel/aggregation.py) and the reduction driver (workflow/hvac.py).    *)
(*                                                                         *)
(* Encoding.  Every object is an integer: element e is e, its i-th port is *)
(* PortBase * e + i, aggregation k is AggBase + k and its j-th             *)
(* AggregationPort is PortBase * (AggBase + k) + j.  None is 0 for object  *)
(* references.  A flow direction is <<v>>, None is <<>>.                   *)
(***************************************************************************)
EXTENDS Integers, Sequences, FiniteSets, TLC

VARIABLES
    connection,      \* BasePort.connection: port -> port or NoPort
    parent,          \* BasePort.parent: port -> element or NoElement
    ports,           \* BaseElement.ports: element -> sequence of ports
    flow_master,     \* BasePort._flow_master: port -> BOOLEAN
    flow_direction,  \* BasePort._flow_direction: port -> <<v>> or <<>>
    call,            \* the last operation called on a port and its outcome
    instances,       \* Inspect.instances: the elements handed to MakeGraph
    ifc_type,        \* element -> its ifc_type
    aggregation,     \* BaseElement.aggregation: element -> aggregation or NoAgg
    assigned,        \* element -> how often its aggregation was assigned
    aggs,            \* the aggregations constructed so far, in order
    nodes,           \* HvacGraph.graph: its nodes
    edges,           \* HvacGraph.graph: its directed edges <<u, v>>
    contraction,     \* HvacGraph.graph: node -> the nodes contracted into it
    pipes,           \* task.pipes, the level of detail of plain pipe chains
    pc,              \* where Reduce.run stands
    cycles,          \* cycles of graph.get_cycles() not yet visited
    chains,          \* chains of graph.get_type_chains() not yet visited
    counters,        \* number_pp, number_fh, number_ps, number_pipes
    step,            \* the last step of the reduction and its outcome
    items,           \* the elements an attribute calculation or a matcher is given
    result           \* what the calculation or the matcher returned

portVars == <<connection, parent, ports, flow_master, flow_direction, call>>

elementVars == <<instances, ifc_type, aggregation, assigned, aggs>>

graphVars == <<nodes, edges, contraction>>

runVars == <<pipes, pc, cycles, chains, counters, step>>

reduceVars == <<elementVars, graphVars, runVars>>

calcVars == <<items, result>>

vars == <<portVars, reduceVars, calcVars>>

NoPort == 0
NoElement == 0
NoCall == [op |-> "none"]
NoAgg == 0
NoStep == [kind |-> "none"]
NoResult == [kind |-> "none"]

\* The port-level specifications have no elements to reduce.
NoReduction ==
    /\ instances = {}
    /\ ifc_type = <<>>
    /\ aggregation = <<>>
    /\ assigned = <<>>
    /\ aggs = <<>>
    /\ nodes = {}
    /\ edges = {}
    /\ contraction = <<>>
    /\ pipes = "full"
    /\ pc = "idle"
    /\ cycles = {}
    /\ chains = {}
    /\ counters = <<>>
    /\ step = NoStep

\* No calculation is applied.
NoCalculation ==
    /\ items = <<>>
    /\ result = NoResult

\* The calculations have no ports.
NoPorts ==
    /\ connection = <<>>
    /\ parent = <<>>
    /\ ports = <<>>
    /\ flow_master = <<>>
    /\ flow_direction = <<>>
    /\ call = NoCall

\* Number of ports of the port-level specifications.
NumPorts == 4

PortIds == 1..NumPorts

(***************************************************************************)
(* BasePort.connect                                                        *)
(***************************************************************************)

\* element.py:405: self.connection and self.connection is not other
SelfAlreadyConnected(a, b) == connection[a] # NoPort /\ connection[a] # b

\* element.py:407: other.connection and other.connection is not self
OtherAlreadyConnected(a, b) == connection[b] # NoPort /\ connection[b] # a

ConnectRaises(a, b) == SelfAlreadyConnected(a, b) \/ OtherAlreadyConnected(a, b)

\* A connect that forgets the back reference of the other port.
ConnectedOneSided(a, b) == [connection EXCEPT ![a] = b]

\* element.py:409-410: self.connection = other; other.connection = self
Connected(a, b) == [[connection EXCEPT ![a] = b] EXCEPT ![b] = a]

\* A connect that does not test the other port.
ConnectIgnoringOther(a, b) ==
    /\ connection' = IF SelfAlreadyConnected(a, b) THEN connection ELSE Connected(a, b)
    /\ call' = [op |-> "connect", self |-> a, other |-> b,
                raised |-> SelfAlreadyConnected(a, b)]
    /\ UNCHANGED <<parent, ports, flow_master, flow_direction, reduceVars, calcVars>>

\* a.connect(b), the whole method: raises and changes nothing, or links both.
Connect(a, b) ==
    /\ connection' = IF ConnectRaises(a, b) THEN connection ELSE Connected(a, b)
    /\ call' = [op |-> "connect", self |-> a, other |-> b,
                raised |-> ConnectRaises(a, b)]
    /\ UNCHANGED <<parent, ports, flow_master, flow_direction, reduceVars, calcVars>>

\* BasePort.is_connected
is_connected(p) == connection[p] # NoPort

\* BasePort.__init__ for every port: unconnected, not locked, direction None.
ConnectInit ==
    /\ connection = [p \in PortIds |-> NoPort]
    /\ parent = [p \in PortIds |-> NoElement]
    /\ ports = <<>>
    /\ flow_master = [p \in PortIds |-> FALSE]
    /\ flow_direction = [p \in PortIds |-> <<>>]
    /\ call = NoCall
    /\ NoReduction
    /\ NoCalculation

ConnectNext == \E a \in PortIds, b \in PortIds : Connect(a, b)

SpecConnect == ConnectInit /\ [][ConnectNext]_vars

(***************************************************************************)
(* BasePort.flow_direction, BasePort.flow_master and the port merge of     *)
(* Inspect.check_element_ports                                             *)
(***************************************************************************)

\* Number of ports of the one element of the flow-direction specification.
NumFlowPorts == 2

FlowPortIds == 1..NumFlowPorts

\* The element that owns the ports of the flow-direction specification.
FlowElement == 1

\* element.py:439: the values the setter accepts, (-1, 0, 1, None)
ValidFlowDirections == {<<-1>>, <<0>>, <<1>>, <<>>}

\* Values a caller may pass to the setter, one of them invalid.
FlowInputs == ValidFlowDirections \cup {<<2>>}

\* element.py:437-440: the two raises of the flow_direction setter
SetFlowDirectionRaises(p, value) ==
    flow_master[p] \/ value \notin ValidFlowDirections

\* A setter that does not look at the lock.
SetFlowDirectionUnlocked(p, value) ==
    /\ flow_direction' = IF value \notin ValidFlowDirections THEN flow_direction
                         ELSE [flow_direction EXCEPT ![p] = value]
    /\ call' = [op |-> "set_flow_direction", port |-> p, value |-> value,
                raised |-> value \notin ValidFlowDirections]
    /\ UNCHANGED <<connection, parent, ports, flow_master, reduceVars, calcVars>>

\* port.flow_direction = value, the whole setter
SetFlowDirection(p, value) ==
    /\ flow_direction' = IF SetFlowDirectionRaises(p, value) THEN flow_direction
                         ELSE [flow_direction EXCEPT ![p] = value]
    /\ call' = [op |-> "set_flow_direction", port |-> p, value |-> value,
                raised |-> SetFlowDirectionRaises(p, value)]
    /\ UNCHANGED <<connection, parent, ports, flow_master, reduceVars, calcVars>>

\* port.flow_master = value
SetFlowMaster(p, value) ==
    /\ flow_master' = [flow_master EXCEPT ![p] = value]
    /\ call' = [op |-> "set_flow_master", port |-> p, value |-> <<>>, raised |-> FALSE]
    /\ UNCHANGED <<connection, parent, ports, flow_direction, reduceVars, calcVars>>

\* list.remove(x): the list without the first occurrence of x
Remove(seq, x) == SelectSeq(seq, LAMBDA y : y # x)

InSeq(seq, x) == \E i \in 1..Len(seq) : seq[i] = x

\* hvac.py:179-187, the body of the loop for a pair (port_a, port_b) of
\* overlapping ports of one element that lead to the same other port: port_b
\* is removed and port_a becomes an undirected flow master.  The pairs come
\* from a snapshot of ele.ports, so port_b may have been removed before
\* (list.remove raises) and port_a may be locked already (the setter raises
\* after port_b was removed).
MergePorts(port_a, port_b) ==
    LET ele == FlowElement
        gone == ~InSeq(ports[ele], port_b)
        locked == flow_master[port_a]
    IN  /\ port_a < port_b
        /\ ports' = IF gone THEN ports
                    ELSE [ports EXCEPT ![ele] = Remove(ports[ele], port_b)]
        /\ parent' = IF gone THEN parent ELSE [parent EXCEPT ![port_b] = NoElement]
        /\ flow_direction' = IF gone \/ locked THEN flow_direction
                             ELSE [flow_direction EXCEPT ![port_a] = <<0>>]
        /\ flow_master' = IF gone \/ locked THEN flow_master
                          ELSE [flow_master EXCEPT ![port_a] = TRUE]
        /\ call' = [op |-> "merge_ports", port |-> port_a, value |-> <<0>>,
                    raised |-> gone \/ locked]
        /\ UNCHANGED <<connection, reduceVars, calcVars>>

\* Element._add_ports and BasePort.__init__: the element owns all its ports,
\* no port is locked, every direction is None.
FlowInit ==
    /\ connection = [p \in FlowPortIds |-> NoPort]
    /\ parent = [p \in FlowPortIds |-> FlowElement]
    /\ ports = [e \in {FlowElement} |-> [i \in FlowPortIds |-> i]]
    /\ flow_master = [p \in FlowPortIds |-> FALSE]
    /\ flow_direction = [p \in FlowPortIds |-> <<>>]
    /\ call = NoCall
    /\ NoReduction
    /\ NoCalculation

FlowNext ==
    \/ \E p \in FlowPortIds, value \in FlowInputs : SetFlowDirection(p, value)
    \/ \E p \in FlowPortIds, value \in BOOLEAN : SetFlowMaster(p, value)
    \/ \E a \in FlowPortIds, b \in FlowPortIds : MergePorts(a, b)

SpecFlow == FlowInit /\ [][FlowNext]_vars

(***************************************************************************)
(* Elements and their connected ports, as Inspect.run leaves them          *)
(***************************************************************************)

\* Root.get_id: ids are unique; port i of element e is PortBase * e + i
PortBase == 10

\* Root.get_id("Agg"): aggregation k gets the id AggBase + k
AggBase == 50

Port(e, i) == PortBase * e + i

\* Longest pipe chain of the ring installations.
MaxChain == 20

\* Largest number of parallel pump branches.
MaxBranches == 2

\* Largest number of outer ports of a junction of the pump installations.
MaxOuter == 2

\* Largest number of additional junctions inside a pump branch.
MaxJunctions == 1

\* Largest number of pipes between the boiler and the space heater of a circuit.
MaxLine == 2

\* Number of pipe segments of the return line of a pump installation that has one.
MaxReturn == 3

Range(f) == {f[x] : x \in DOMAIN f}

Max(S) == CHOOSE x \in S : \A y \in S : y <= x

\* A ring: a boiler (element 1) whose two ports are joined by a chain of n
\* two-port pipe elements (pipe segments, every third one a pipe fitting).
Ring(n) ==
    [ifc_type |-> [e \in 1..(n + 1) |->
                      IF e = 1 THEN "IfcBoiler"
                      ELSE IF e % 3 = 0 THEN "IfcPipeFitting" ELSE "IfcPipeSegment"],
     nports |-> [e \in 1..(n + 1) |-> 2],
     links |-> {<<Port(e, 2), Port(e + 1, 1)>> : e \in 1..n}
                 \cup {<<Port(n + 1, 2), Port(1, 1)>>}]

\* Parallel pumps: junctions f1 (element 1) and f2 (element 2) joined by b
\* branches with one pump each (elements 5..4+b); f1 has o1 and f2 has o2
\* outer ports, the first leading to the boiler (element 3), the second to
\* the space heater (element 4).  With j = 1 a three-port fitting (element
\* 5+b, one port open) sits between f1 and the first pump.  The line from
\* f2 back to the boiler runs through s pipe segments (the last s elements).
Pumps(b, o1, o2, j, s) ==
    LET m == 4 + b + j
        n == m + s
        t == 5 + b
    IN  [ifc_type |-> [e \in 1..n |->
                          IF e > m THEN "IfcPipeSegment"
                          ELSE IF e \in {1, 2} \/ e = t THEN "IfcPipeFitting"
                          ELSE IF e = 3 THEN "IfcBoiler"
                          ELSE IF e = 4 THEN "IfcSpaceHeater"
                          ELSE "IfcPump"],
         nports |-> [e \in 1..n |->
                        IF e = 1 THEN b + o1
                        ELSE IF e = 2 THEN b + o2
                        ELSE IF e = t /\ e <= m THEN 3 ELSE 2],
         links |-> {<<Port(1, i), Port(4 + i, 1)>> : i \in (IF j = 1 THEN 2..b ELSE 1..b)}
                     \cup (IF j = 1 THEN {<<Port(1, 1), Port(t, 1)>>,
                                          <<Port(t, 2), Port(5, 1)>>}
                           ELSE {})
                     \cup {<<Port(4 + i, 2), Port(2, i)>> : i \in 1..b}
                     \cup {<<Port(1, b + 1), Port(3, 1)>>}
                     \cup (IF s = 0 THEN {<<Port(2, b + 1), Port(3, 2)>>}
                           ELSE {<<Port(2, b + 1), Port(m + 1, 1)>>,
                                 <<Port(m + s, 2), Port(3, 2)>>}
                                  \cup {<<Port(m + i, 2), Port(m + i + 1, 1)>> : i \in 1..(s - 1)})
                     \cup (IF o1 = 2 THEN {<<Port(1, b + 2), Port(4, 1)>>} ELSE {})
                     \cup (IF o2 = 2 THEN {<<Port(2, b + 2), Port(4, 2)>>} ELSE {})]

\* A circuit of a boiler (element 1), n two-port pipe segments and a space
\* heater (element n + 2).
Line(n) ==
    [ifc_type |-> [e \in 1..(n + 2) |->
                      IF e = 1 THEN "IfcBoiler"
                      ELSE IF e = n + 2 THEN "IfcSpaceHeater" ELSE "IfcPipeSegment"],
     nports |-> [e \in 1..(n + 2) |-> 2],
     links |-> {<<Port(e, 2), Port(e + 1, 1)>> : e \in 1..(n + 1)}
                 \cup {<<Port(n + 2, 2), Port(1, 1)>>}]

Installations ==
    {Ring(n) : n \in 1..MaxChain}
      \cup {Line(n) : n \in 1..MaxLine}
      \cup {Pumps(b, o[1], o[2], j, s) :
              b \in 2..MaxBranches, o \in (1..MaxOuter) \X (1..MaxOuter),
              j \in 0..MaxJunctions, s \in {0, MaxReturn}}

\* workflow.py:6-11, the levels of detail Reduce.run distinguishes
LODs == {"low", "medium", "full"}

\* The peer of p in a set of links, NoPort if there is none.
Peer(links, p) ==
    IF \E l \in links : l[1] = p \/ l[2] = p
    THEN LET l == CHOOSE l \in links : l[1] = p \/ l[2] = p
         IN  IF l[1] = p THEN l[2] ELSE l[1]
    ELSE NoPort

\* Element.__init__ / _add_ports for every element, then the connect calls
\* of Inspect.run: every link of the installation is a symmetric connection.
Installed(inst) ==
    LET E == DOMAIN inst.ifc_type
        Own(e) == [i \in 1..inst.nports[e] |-> Port(e, i)]
        AllPorts == UNION {Range(Own(e)) : e \in E}
    IN  /\ instances = E
        /\ ifc_type = inst.ifc_type
        /\ ports = [e \in E |-> Own(e)]
        /\ parent = [p \in AllPorts |-> p \div PortBase]
        /\ connection = [p \in AllPorts |-> Peer(inst.links, p)]
        /\ flow_master = [p \in AllPorts |-> FALSE]
        /\ flow_direction = [p \in AllPorts |-> <<>>]
        /\ call = NoCall
        /\ aggregation = [e \in E |-> NoAgg]
        /\ assigned = [e \in E |-> 0]
        /\ aggs = <<>>

(***************************************************************************)
(* HvacGraph                                                               *)
(***************************************************************************)

\* hvac_graph.py:37-38: the ports of the listed elements
PortNodes(insts) == UNION {Range(ports[e]) : e \in insts}

\* port.connections, the list view of the one connection of a port.  An
\* AggregationPort is created unconnected and no code connects it.
Connections(p) ==
    IF p \in DOMAIN connection /\ connection[p] # NoPort THEN {connection[p]} ELSE {}

\* hvac_graph.py:57-58: a port of a listed element is contracted into its
\* parent, any other endpoint of an edge stays a node of its own
NodeOf(insts, p) == IF p \in PortNodes(insts) THEN parent[p] ELSE p

\* hvac_graph.py:39-42 and 57-58: the edges (port, connected_port), both
\* endpoints contracted
BuiltEdges(insts) ==
    {<<NodeOf(insts, p), NodeOf(insts, connection[p])>> :
        p \in {r \in PortNodes(insts) : Connections(r) # {}}}

\* A graph whose port nodes are not contracted into their elements.
BuiltNodesUncontracted(insts) == insts \cup PortNodes(insts)

\* hvac_graph.py:41-42: the listed elements and every endpoint of an edge
BuiltNodes(insts) ==
    insts \cup {e[1] : e \in BuiltEdges(insts)} \cup {e[2] : e \in BuiltEdges(insts)}

\* nx.contracted_nodes records the contracted node in node['contraction']
BuiltContraction(insts) ==
    [n \in BuiltNodes(insts) |-> {p \in PortNodes(insts) : parent[p] = n}]

\* nx.Graph(self.graph): the neighbours of n in the undirected view
Neighbors(N, E, n) == {m \in N : <<n, m>> \in E \/ <<m, n>> \in E}

\* degree of the undirected view, a self loop counts twice
Degree(N, E, n) ==
    Cardinality(Neighbors(N, E, n) \ {n}) + (IF <<n, n>> \in E THEN 2 ELSE 0)

\* graph.subgraph(S): the edges with both ends in S
Within(E, S) == {e \in E : e[1] \in S /\ e[2] \in S}

RECURSIVE Reach(_, _, _)
Reach(N, E, S) ==
    LET T == S \cup UNION {Neighbors(N, E, n) : n \in S}
    IN  IF T = S THEN S ELSE Reach(N, E, T)

\* nx.connected_components
Components(N, E) == {Reach(N, E, {n}) : n \in N}

\* the undirected edges, a self loop is {n}
UndirectedEdges(N, E) == {{e[1], e[2]} : e \in Within(E, N)}

PathEdges(path) == {{path[i], path[i + 1]} : i \in 1..(Len(path) - 1)}

\* The simple cycles through path[1] that extend the simple path `path` and
\* have path[1] as their least node, each as its set of undirected edges.
RECURSIVE CyclesFrom(_, _, _)
CyclesFrom(N, E, path) ==
    LET first == path[1]
        last == path[Len(path)]
    IN  UNION {IF m = first
               THEN (IF Len(path) >= 3
                     THEN {PathEdges(path) \cup {{last, first}}} ELSE {})
               ELSE IF m \notin Range(path) /\ m > first
                    THEN CyclesFrom(N, E, Append(path, m))
                    ELSE {}
               : m \in Neighbors(N, E, last) \ {last}}

SimpleCycles(N, E) ==
    UNION {CyclesFrom(N, E, <<n>>) : n \in N}
      \cup {{{n}} : n \in {m \in N : <<m, m>> \in E}}

\* A set of cycles is independent when no non-empty subset of it sums to
\* nothing (every edge used an even number of times).
Independent(B) ==
    \A S \in SUBSET B \ {{}} :
        \E e \in UNION S : Cardinality({c \in S : e \in c}) % 2 = 1

\* nx.cycle_basis of the undirected view: a basis of the cycle space made
\* of simple cycles.  Which basis is returned depends on the iteration
\* order of the node set, so every basis is a possible result.
CycleBases(N, E) ==
    LET k == Cardinality(UndirectedEdges(N, E)) - Cardinality(N)
               + Cardinality(Components(N, E))
    IN  {B \in SUBSET SimpleCycles(N, E) : Cardinality(B) = k /\ Independent(B)}

\* the nodes of a cycle given by its edges
CycleNodes(c) == UNION c

\* ifc_type of a node; the class attribute of an aggregation is None
TypeOf(n) == IF n \in DOMAIN ifc_type THEN ifc_type[n] ELSE "None"

\* hvac_graph.py:205-208: the nodes of degree 2 of the wanted types
ChainNodes(N, E, types) == {v \in N : Degree(N, E, v) = 2 /\ TypeOf(v) \in types}

\* hvac_graph.py:200-219 get_type_chains: the connected runs of such nodes
\* that have exactly two end nodes; the shortest path between the two ends
\* of such a run is the whole run
TypeChains(N, E, types) ==
    LET D == ChainNodes(N, E, types)
        sub == Within(E, D)
    IN  {C \in Components(D, sub) :
            Cardinality({v \in C : Degree(D, sub, v) = 1}) = 2}

\* hvac_graph.py:235-236: the ports the ports of the replacement lead to
OuterConnections(agg) == UNION {Connections(p) : p \in agg.aggports}

\* hvac_graph.py:238-244: every outer port is taken out of its parent and
\* contracted into it again, its peer is contracted into the replacement:
\* an edge from the parent of the outer port to the replacement
ReattachedEdges(agg) ==
    {<<parent[p], agg.id>> : p \in {q \in OuterConnections(agg) : Connections(q) # {}}}

\* hvac_graph.py:221-249 replace(elements, replacement): the replacement is
\* added and attached (232-244), then every element is removed with its
\* edges (246-247).  remove_node raises for an element that is no node.
Replaced(N, E, elements, agg) ==
    LET N1 == IF agg.id # NoAgg THEN N \cup {agg.id} ELSE N
        E1 == IF agg.id # NoAgg THEN E \cup ReattachedEdges(agg) ELSE E
        N2 == N1 \ elements
    IN  [nodes |-> N2,
         edges |-> Within(E1, N2),
         raised |-> ~(elements \subseteq N1)]

(***************************************************************************)
(* Aggregations                                                            *)
(*                                                                         *)
(* A constructor takes the state st = [aggregation, assigned, aggs,        *)
(* raised] of the elements and returns the state it leaves, raised when it *)
(* ends in an exception.  An aggregation is a record [cls, elements,       *)
(* ports]; ports is the list of its AggregationPorts, each given by the    *)
(* set of its originals.                                                   *)
(***************************************************************************)

AggId(k) == AggBase + k

\* AggregationPort.__init__: the id of the j-th port of aggregation k
AggPortId(k, j) == PortBase * AggId(k) + j

RECURSIVE SeqOf(_)
\* the elements of a finite set of numbers as a list
SeqOf(S) ==
    IF S = {} THEN <<>>
    ELSE LET x == CHOOSE y \in S : \A z \in S : y <= z
         IN  <<x>> \o SeqOf(S \ {x})

\* AggregationPort(port, parent=self) for every port of a list
SinglePorts(S) == [i \in 1..Cardinality(S) |-> {SeqOf(S)[i]}]

Raise(st) == [st EXCEPT !.raised = TRUE]

WithPorts(st, k, aggports) == [st EXCEPT !.aggs[k].ports = aggports]

\* An Aggregation.__init__ that clears the aggregation reference of every
\* element outside the new aggregation.
AggregationInitForgetting(st, cls, S) ==
    [aggregation |-> [e \in DOMAIN st.aggregation |->
                         IF e \in S THEN AggId(Len(st.aggs) + 1) ELSE NoAgg],
     assigned |-> [e \in DOMAIN st.assigned |->
                      IF e \in S THEN st.assigned[e] + 1 ELSE st.assigned[e]],
     aggs |-> Append(st.aggs, [cls |-> cls, elements |-> S, ports |-> <<>>]),
     raised |-> FALSE]

\* aggregation.py:53-65 Aggregation.__init__: the new aggregation takes the
\* nodes of the subgraph as its elements and every one of them refers to it
AggregationInit(st, cls, S) ==
    [aggregation |-> [e \in DOMAIN st.aggregation |->
                         IF e \in S THEN AggId(Len(st.aggs) + 1) ELSE st.aggregation[e]],
     assigned |-> [e \in DOMAIN st.assigned |->
                      IF e \in S THEN st.assigned[e] + 1 ELSE st.assigned[e]],
     aggs |-> Append(st.aggs, [cls |-> cls, elements |-> S, ports |-> <<>>]),
     raised |-> FALSE]

\* the connected ports of the elements els
ConnectedPorts(els) ==
    {p \in UNION {Range(ports[e]) : e \in els} : connection[p] # NoPort}

\* the ports of els whose peer belongs to no element of S
OuterPorts(S, els) == {p \in ConnectedPorts(els) : parent[connection[p]] \notin S}

\* aggregation.py:118-141 get_edge_ports_of_strait
get_edge_ports_of_strait(E, S) ==
    LET edge_elements == {v \in S : Degree(S, Within(E, S), v) = 1}
        edge_ports == OuterPorts(S, edge_elements)
    IN  [raised |-> Cardinality(edge_elements) # 2 \/ Cardinality(edge_ports) > 2,
         ports |-> edge_ports]

\* aggregation.py:160-170 PipeStrand.__init__ (UnderfloorHeating.__init__
\* adds no port)
PipeStrandInit(st, cls, E, S) ==
    LET st1 == AggregationInit(st, cls, S)
        found == get_edge_ports_of_strait(E, S)
    IN  IF found.raised THEN Raise(st1)
        ELSE WithPorts(st1, Len(st1.aggs), SinglePorts(found.ports))

\* aggregation.py:720-735 AggregatedPipeFitting.get_edge_ports
FittingEdgePorts(S) == OuterPorts(S, {n \in S : Len(ports[n]) > 2})

\* aggregation.py:704-717 AggregatedPipeFitting.__init__
AggregatedPipeFittingInit(st, S, aggr_ports) ==
    LET st1 == AggregationInit(st, "AggregatedPipeFitting", S)
        edge_ports == FittingEdgePorts(S)
    IN  IF Cardinality(edge_ports) < 2 THEN Raise(st1)
        ELSE WithPorts(st1, Len(st1.aggs),
                       SinglePorts(edge_ports \ aggr_ports)
                         \o (IF aggr_ports # {} THEN <<aggr_ports>> ELSE <<>>))

\* HvacGraph.get_connections_between(graph, {IfcPipeFitting}, inert types):
\* the connected groups of pipe fittings and inert nodes that link two or
\* more pipe fittings
ConnectedFittings(E, S) ==
    LET wanted == {n \in S : TypeOf(n) = "IfcPipeFitting"}
        F == {n \in S : TypeOf(n) \in {"IfcPipeFitting", "IfcPipeSegment", "PipeStand"}}
    IN  {C \in Components(F, Within(E, F)) : Cardinality(C \cap wanted) >= 2}

RECURSIVE FittingsMerged(_, _)
\* aggregation.py:640-644: an AggregatedPipeFitting for every junction
FittingsMerged(st, junctions) ==
    IF junctions = <<>> \/ st.raised THEN st
    ELSE FittingsMerged(AggregatedPipeFittingInit(st, Head(junctions), {}),
                        Tail(junctions))

RECURSIVE ListOf(_)
\* the members of a set of disjoint node sets as a list
ListOf(F) ==
    IF F = {} THEN <<>>
    ELSE LET C == CHOOSE D \in F : \A D2 \in F : Max(D) <= Max(D2)
         IN  <<C>> \o ListOf(F \ {C})

\* aggregation.py:631-645 merge_additional_junctions
merge_additional_junctions(st, E, S) == FittingsMerged(st, ListOf(ConnectedFittings(E, S)))

\* the class of the aggregation an element refers to
AggregationClass(st, e) ==
    IF st.aggregation[e] = NoAgg THEN "None" ELSE st.aggs[st.aggregation[e] - AggBase].cls

RECURSIVE JunctionsWrapped(_, _, _)
\* aggregation.py:549-558: every junction with inner ports gets an
\* AggregatedPipeFitting of its own that combines its inner ports, unless it
\* refers to one already (then the new AggregationPort is added to no list)
JunctionsWrapped(st, parents, inner) ==
    IF parents = <<>> \/ st.raised THEN st
    ELSE LET par == Head(parents)
             aggr_ports == {p \in inner : parent[p] = par}
         IN  JunctionsWrapped(
                 IF AggregationClass(st, par) # "AggregatedPipeFitting"
                 THEN AggregatedPipeFittingInit(st, {par}, aggr_ports)
                 ELSE st,
                 Tail(parents), inner)

\* aggregation.py:493-500: one AggregationPort for every element the edge
\* ports lead to, its originals the edge ports that lead to that element
PortsByNeighbour(edge_ports) ==
    LET parents == SeqOf({parent[connection[p]] : p \in edge_ports})
    IN  [i \in 1..Len(parents) |->
            {p \in edge_ports : parent[connection[p]] = parents[i]}]

\* aggregation.py:483-559 ParallelPump.__init__ with get_edge_ports
ParallelPumpInit(st, E, S) ==
    LET st1 == AggregationInit(st, "ParallelPump", S)
        k == Len(st1.aggs)
        edge_elements == {n \in S : Len(ports[n]) > 2 /\ TypeOf(n) # "IfcPump"}
        st2 == IF Cardinality(edge_elements) > 2
               THEN merge_additional_junctions(st1, E, S) ELSE st1
        edge_outer_ports == OuterPorts(S, edge_elements)
        edge_inner_ports == ConnectedPorts(edge_elements) \ edge_outer_ports
        st3 == JunctionsWrapped(st2, SeqOf({parent[p] : p \in edge_inner_ports}),
                                edge_inner_ports)
        edge_ports == {connection[p] : p \in edge_inner_ports}
    IN  IF st2.raised THEN st2
        ELSE IF Cardinality(edge_outer_ports) < 2 THEN Raise(st2)
        ELSE IF Cardinality(edge_outer_ports) = 2
             THEN WithPorts(st2, k, SinglePorts(edge_outer_ports))
        ELSE IF st3.raised THEN st3
        ELSE IF Cardinality(edge_ports) = 2
             THEN WithPorts(st3, k, SinglePorts(edge_ports))
        ELSE WithPorts(st3, k, PortsByNeighbour(edge_ports))

\* the ports of the elements of aggregation k
ElementPorts(st, k) == UNION {Range(ports[e]) : e \in st.aggs[k].elements}

\* the originals of all ports of aggregation k
Originals(st, k) == UNION Range(st.aggs[k].ports)

\* aggregation.py:205-210 (PipeStrand), 751-756 (AggregatedPipeFitting):
\* every port of every element maps to None, every original to its port
OwnMapping(st, k) ==
    [p \in ElementPorts(st, k) \cup Originals(st, k) |->
        IF p \in Originals(st, k)
        THEN AggPortId(k, Max({j \in 1..Len(st.aggs[k].ports) : p \in st.aggs[k].ports[j]}))
        ELSE NoPort]

\* aggregation.py:623-625: the aggregations made during the construction
NewAggregations(st, k) ==
    {st.aggregation[e] - AggBase :
        e \in {x \in st.aggs[k].elements : st.aggregation[x] \notin {AggId(k), NoAgg}}}

\* A mapping that knows only the ports of the aggregation itself.
get_replacement_mapping_own(st, k) == OwnMapping(st, k)

\* aggregation.py:203-210, 614-629, 748-756 get_replacement_mapping; for a
\* ParallelPump the originals of the ports of the aggregations made during
\* its construction map to those ports
get_replacement_mapping(st, k) ==
    IF st.aggs[k].cls # "ParallelPump" THEN OwnMapping(st, k)
    ELSE LET nested == NewAggregations(st, k)
             keys == DOMAIN OwnMapping(st, k) \cup UNION {Originals(st, n) : n \in nested}
         IN  [p \in keys |->
                IF \E n \in nested : p \in Originals(st, n)
                THEN LET n == Max({m \in nested : p \in Originals(st, m)})
                     IN  AggPortId(n, Max({j \in 1..Len(st.aggs[n].ports) :
                                             p \in st.aggs[n].ports[j]}))
                ELSE OwnMapping(st, k)[p]]

(***************************************************************************)
(* MakeGraph.run and Reduce.run                                            *)
(***************************************************************************)

\* aggregation.py:157 PipeStrand.aggregatable_elements
PipeTypes == {"IfcPipeSegment", "IfcPipeFitting"}

\* aggregation.py:479-480 ParallelPump.aggregatable_elements
PumpTypes == {"IfcPump", "PipeStrand", "IfcPipeSegment", "IfcPipeFitting"}

\* aggregation.py:403: the least number of elements of an underfloor heating
MinUfhElements == 20

\* What the positions, lengths and diameters of the elements of a chain make
\* of the checks of UnderfloorHeating.create_on_match after the count: the
\* z plane, heating area or spacing check fails (aggregation.py:419-461),
\* only the final density check fails (470-474), or all checks pass.
UfhCriteria == {"fails_layout", "fails_density", "passes"}

\* the state of the elements and aggregations as the constructors take it
Current == [aggregation |-> aggregation, assigned |-> assigned, aggs |-> aggs,
            raised |-> FALSE]

\* the state a constructor leaves becomes the state of the program
Took(st) ==
    /\ aggregation' = st.aggregation
    /\ assigned' = st.assigned
    /\ aggs' = st.aggs

\* the aggregation k of st as replace sees it: its id and its ports
Replacement(st, k) ==
    [id |-> AggId(k), aggports |-> {AggPortId(k, j) : j \in 1..Len(st.aggs[k].ports)}]

NoReplacement == [id |-> NoAgg, aggports |-> {}]

\* ParallelPump.create_on_match: a cycle matches when its elements are nodes
\* of the graph, all of the aggregatable types, and one of them is a pump
ParallelPumpMatch(c) ==
    /\ c \subseteq nodes
    /\ \A n \in c : TypeOf(n) \in PumpTypes
    /\ \E n \in c : TypeOf(n) = "IfcPump"

\* hvac.py:301-313 MakeGraph.run: HvacGraph(instances)
MakeGraph ==
    /\ pc = "build"
    /\ nodes' = BuiltNodes(instances)
    /\ edges' = BuiltEdges(instances)
    /\ contraction' = BuiltContraction(instances)
    /\ pc' = "start"
    /\ UNCHANGED <<calcVars, portVars, elementVars, pipes, cycles, chains, counters, step>>

\* hvac.py:335-343: the counters are reset and the cycles are taken
ReduceStart ==
    /\ pc = "start"
    /\ \E B \in CycleBases(nodes, edges) : cycles' = {CycleNodes(c) : c \in B}
    /\ counters' = [number_pp |-> 0, number_fh |-> 0, number_ps |-> 0, number_pipes |-> 0]
    /\ pc' = "pumps"
    /\ UNCHANGED <<calcVars, portVars, elementVars, graphVars, pipes, chains, step>>

\* A get_empty_mapping that maps a boundary port to the external port at
\* its own end.
EmptyMappingSameEnd(elements) ==
    LET own == UNION {Range(ports[e]) : e \in elements}
        external_ports == SeqOf({connection[p] : p \in OuterPorts(elements, elements)})
    IN  IF Len(external_ports) < 2 THEN [raised |-> TRUE, mapping |-> <<>>]
        ELSE [raised |-> FALSE,
              mapping |-> [p \in own \cup {connection[external_ports[1]],
                                            connection[external_ports[2]]} |->
                             IF p = connection[external_ports[1]] THEN external_ports[1]
                             ELSE IF p = connection[external_ports[2]] THEN external_ports[2]
                             ELSE NoPort]]

\* aggregation.py:89-107 get_empty_mapping: every port of the elements
\* maps to None, the peers of the first two outward ports to each other;
\* fewer than two outward ports raise
EmptyMapping(elements) ==
    LET own == UNION {Range(ports[e]) : e \in elements}
        external_ports == SeqOf({connection[p] : p \in OuterPorts(elements, elements)})
    IN  IF Len(external_ports) < 2 THEN [raised |-> TRUE, mapping |-> <<>>]
        ELSE [raised |-> FALSE,
              mapping |-> [p \in own \cup {connection[external_ports[1]],
                                            connection[external_ports[2]]} |->
                             IF p = connection[external_ports[2]] THEN external_ports[1]
                             ELSE IF p = connection[external_ports[1]] THEN external_ports[2]
                             ELSE NoPort]]

\* graph.merge of a mapping that maps a port to another port of the graph
\* instead of an AggregationPort: the external neighbour of the mapped port
\* is reconnected to the port it is mapped to, an edge between the parents
\* of the two
Reconnected(mapping) ==
    {<<parent[connection[p]], parent[mapping[p]]>> :
        p \in {q \in DOMAIN mapping : mapping[q] # NoPort}}

\* graph.merge of an aggregation (hvac.py:348, 365, 376) or of an empty
\* mapping (381), by HvacGraph.replace; the ports an empty mapping maps to
\* other ports are reconnected first.  When remove_node raises for an
\* element that is no node, the elements visited before it are gone.
Merge(candidate, st, k, kind) ==
    LET repl == IF k = 0 THEN NoReplacement ELSE Replacement(st, k)
        moved == IF kind = "deleted"
                 THEN Reconnected(EmptyMapping(candidate).mapping) ELSE {}
        r == Replaced(nodes, edges \cup moved, candidate, repl)
    IN  IF r.raised
        THEN /\ \E gone \in SUBSET (candidate \cap nodes) :
                  /\ nodes' = (nodes \cup (IF k = 0 THEN {} ELSE {repl.id})) \ gone
                  /\ edges' = Within(edges, nodes')
             /\ pc' = "failed"
             /\ step' = [kind |-> "raised", candidate |-> candidate, agg |-> k]
             /\ UNCHANGED counters
        ELSE /\ nodes' = r.nodes
             /\ edges' = r.edges
             /\ pc' = pc
             /\ step' = [kind |-> kind, candidate |-> candidate, agg |-> k]
             /\ counters' =
                  IF kind = "deleted"
                  THEN LET mapping == EmptyMapping(candidate).mapping
                       IN  [counters EXCEPT !.number_pipes = @ + Cardinality(
                               {parent[p] : p \in {q \in DOMAIN mapping :
                                                       mapping[q] = NoPort}})]
                  ELSE IF st.aggs[k].cls = "ParallelPump"
                  THEN [counters EXCEPT !.number_pp = @ + 1]
                  ELSE IF st.aggs[k].cls = "UnderfloorHeating"
                  THEN [counters EXCEPT !.number_fh = @ + 1]
                  ELSE [counters EXCEPT !.number_ps = @ + 1]

\* an exception ends Reduce.run; what the constructors did so far stays
Failed(candidate, st) ==
    /\ pc' = "failed"
    /\ step' = [kind |-> "raised", candidate |-> candidate, agg |-> 0]
    /\ UNCHANGED <<graphVars, counters>>

\* a candidate that is no match
Rejected(candidate, kind) ==
    /\ step' = [kind |-> kind, candidate |-> candidate, agg |-> 0]
    /\ UNCHANGED <<graphVars, pc, counters>>

\* hvac.py:344-350: one cycle of the parallel pump pass
PumpStep ==
    /\ pc = "pumps"
    /\ \E c \in cycles :
         /\ cycles' = cycles \ {c}
         /\ IF ~ParallelPumpMatch(c)
            THEN Took(Current) /\ Rejected(c, "rejected")
            ELSE LET st == ParallelPumpInit(Current, edges, c)
                 IN  /\ Took(st)
                     /\ IF st.raised THEN Failed(c, st)
                        ELSE Merge(c, st, Len(aggs) + 1, "merged")
    /\ UNCHANGED <<calcVars, portVars, instances, ifc_type, contraction, pipes, chains>>

\* hvac.py:358-360: the pump pass is over, the pipe chains are taken
PumpsDone ==
    /\ pc = "pumps"
    /\ cycles = {}
    /\ chains' = TypeChains(nodes, edges, PipeTypes)
    /\ pc' = "chains"
    /\ UNCHANGED <<calcVars, portVars, elementVars, graphVars, pipes, cycles, counters, step>>

\* aggregation.py:391-474 UnderfloorHeating.create_on_match: the state it
\* leaves and whether it returns an instance.  The instance is constructed
\* before the final density check.
UnderfloorHeatingOnMatch(st, E, chain, criteria) ==
    IF Cardinality(chain) < MinUfhElements \/ criteria = "fails_layout"
    THEN [st |-> st, match |-> FALSE]
    ELSE LET st1 == PipeStrandInit(st, "UnderfloorHeating", E, chain)
         IN  [st |-> st1, match |-> ~st1.raised /\ criteria = "passes"]

\* hvac.py:361-385: one chain of the pipe pass
ChainStep ==
    /\ pc = "chains"
    /\ \E chain \in chains, criteria \in UfhCriteria :
         LET ufh == UnderfloorHeatingOnMatch(Current, edges, chain, criteria)
             strand == PipeStrandInit(ufh.st, "PipeStrand", edges, chain)
         IN  /\ chains' = chains \ {chain}
             /\ IF ufh.st.raised THEN Took(ufh.st) /\ Failed(chain, ufh.st)
                ELSE IF ufh.match
                THEN Took(ufh.st) /\ Merge(chain, ufh.st, Len(ufh.st.aggs), "merged")
                ELSE IF pipes = "full" \/ (pipes = "medium" /\ Cardinality(chain) <= 1)
                THEN Took(ufh.st) /\ Rejected(chain, "kept")
                ELSE IF pipes = "medium"
                THEN /\ Took(strand)
                     /\ IF strand.raised THEN Failed(chain, strand)
                        ELSE Merge(chain, strand, Len(strand.aggs), "merged")
                ELSE /\ Took(ufh.st)
                     /\ IF EmptyMapping(chain).raised THEN Failed(chain, ufh.st)
                        ELSE Merge(chain, ufh.st, 0, "deleted")
    /\ UNCHANGED <<calcVars, portVars, instances, ifc_type, contraction, pipes, cycles>>

\* hvac.py:387-401: all chains are visited
Finish ==
    /\ pc = "chains"
    /\ chains = {}
    /\ pc' = "done"
    /\ UNCHANGED <<calcVars, portVars, elementVars, graphVars, pipes, cycles, chains, counters, step>>

\* The elements of an installation, connected, before the graph is made.
Init ==
    /\ \E inst \in Installations : Installed(inst)
    /\ pipes \in LODs
    /\ nodes = {}
    /\ edges = {}
    /\ contraction = <<>>
    /\ pc = "build"
    /\ cycles = {}
    /\ chains = {}
    /\ counters = <<>>
    /\ step = NoStep
    /\ NoCalculation

Next ==
    \/ MakeGraph
    \/ ReduceStart
    \/ PumpStep
    \/ PumpsDone
    \/ ChainStep
    \/ Finish

Spec == Init /\ [][Next]_vars

(***************************************************************************)
(* Claims                                                                  *)
(***************************************************************************)

\* C7: after any sequence of connect calls the connection relation is
\* symmetric (the connection of the connection of p is p) and no two ports
\* are linked to the same peer.
ConnectionSymmetric ==
    /\ \A p \in DOMAIN connection :
          connection[p] # NoPort => connection[connection[p]] = p
    /\ \A p, q \in DOMAIN connection :
          (connection[p] # NoPort /\ connection[p] = connection[q]) => p = q

\* C7 witness: two distinct ports are linked and a later connect has failed.
ConnectionSymmetricWitness ==
    /\ call.op = "connect" /\ call.raised
    /\ \E p \in DOMAIN connection : connection[p] # NoPort /\ connection[p] # p

\* C8: connect(a, b) raises exactly when a or b is linked to a different
\* port, a raising connect leaves every connection as it was, and connect on
\* an already linked pair a-b succeeds and changes nothing.
ConnectContract ==
    [][call'.op = "connect" =>
        LET a == call'.self
            b == call'.other
        IN  /\ call'.raised <=>
                  \/ (connection[a] # NoPort /\ connection[a] # b)
                  \/ (connection[b] # NoPort /\ connection[b] # a)
            /\ call'.raised => connection' = connection
            /\ (connection[a] = b /\ connection[b] = a) =>
                  (~call'.raised /\ connection' = connection)]_vars

\* C8 witness: connect(a, b) on a free port a failed because b was linked to
\* a third port.
ConnectContractWitness ==
    /\ call.op = "connect" /\ call.raised
    /\ connection[call.self] = NoPort
    /\ connection[call.other] \notin {NoPort, call.self}

\* C9: a locked port keeps its flow direction, every set of a conflicting
\* value on a locked port fails, and a flow direction is always one of
\* -1, 0, 1 or None.
FlowMasterLocked ==
    /\ [](\A p \in DOMAIN flow_direction : flow_direction[p] \in ValidFlowDirections)
    /\ [][\A p \in DOMAIN flow_direction :
            flow_master[p] =>
              /\ flow_direction'[p] = flow_direction[p]
              /\ (/\ call'.op = "set_flow_direction"
                  /\ call'.port = p
                  /\ call'.value # flow_direction[p]) => call'.raised]_vars

\* C9 witness: a set of a conflicting value has just failed on a locked port
\* whose direction is not None.
FlowMasterLockedWitness ==
    /\ call.op = "set_flow_direction" /\ call.raised
    /\ flow_master[call.port]
    /\ flow_direction[call.port] # <<>>
    /\ call.value \in ValidFlowDirections
    /\ call.value # flow_direction[call.port]

\* the ids of the aggregations constructed so far
AggIds == {AggId(k) : k \in DOMAIN aggs}

\* the ports of a node: those of an element, the AggregationPorts of an
\* aggregation
PortsOf(n) ==
    IF n \in instances THEN Range(ports[n])
    ELSE IF n \in AggIds THEN {AggPortId(n - AggBase, j) : j \in 1..Len(aggs[n - AggBase].ports)}
    ELSE {}

\* some port of a is connected to some port of b
PortConnected(a, b) == \E p \in PortsOf(a) : Connections(p) \cap PortsOf(b) # {}

\* the edges of the undirected view that touch node n
EdgesAt(n) == {{e[1], e[2]} : e \in {d \in edges : n \in {d[1], d[2]} /\ d[1] # d[2]}}

\* a reduction step is completed: a candidate was rejected, or an
\* aggregation was constructed and merged
StepCompleted == pc \in {"pumps", "chains", "done"} /\ step.kind \in {"rejected", "kept", "merged"}

\* C1: after Reduce.run no element is in the elements of two different
\* aggregations and no element's aggregation reference was assigned more
\* than once.
NoDoubleAbsorption ==
    pc = "done" =>
        /\ \A e \in instances : assigned[e] <= 1
        /\ \A i, k \in DOMAIN aggs : i # k => aggs[i].elements \cap aggs[k].elements = {}

\* C2: after every completed reduction step an element is a node of the
\* graph if and only if its aggregation reference is unset.
InGraphIffUnabsorbed ==
    StepCompleted => \A e \in instances : (e \in nodes) <=> (aggregation[e] = NoAgg)

\* C3: after the merge of an aggregation the number of edges at the new
\* node equals the number of ports of the merged elements that were
\* connected to a port outside them.
BoundaryEdgesKept ==
    (step.kind = "merged" /\ pc # "failed") =>
        Cardinality(EdgesAt(AggId(step.agg)))
            = Cardinality(OuterPorts(step.candidate, step.candidate))

OriginalsAreBoundaryPorts ==
    \A k \in DOMAIN aggs : \A p \in Originals(Current, k) :
        /\ parent[p] \in aggs[k].elements
        /\ connection[p] # NoPort
        /\ parent[connection[p]] \notin aggs[k].elements

\* C10: once the aggregation reference of an element is set no step resets
\* it to none or makes the element a node again after it left the graph,
\* and no aggregation loses an element.
AbsorptionTerminal ==
    [][/\ \A e \in instances :
            aggregation[e] # NoAgg =>
                /\ aggregation'[e] # NoAgg
                /\ (e \notin nodes => e \notin nodes')
       /\ \A k \in DOMAIN aggs :
            /\ k \in DOMAIN aggs'
            /\ aggs'[k].elements = aggs[k].elements
            /\ aggs'[k].cls = aggs[k].cls]_vars

AbsorptionTerminalWitness ==
    /\ pc = "done"
    /\ Len(aggs) = 2
    /\ aggs[1].cls = "ParallelPump"
    /\ aggs[2].cls = "PipeStrand"
    /\ \A e \in aggs[1].elements : aggregation[e] = AggId(1) /\ e \notin nodes

\* C11: Reduce.run visits the cycles before the chains, and no candidate
\* it takes contains an element that is no node of the graph any more.
CandidatesAreLive ==
    [][/\ (pc = "chains" \/ pc' = "chains") => cycles' = {}
       /\ (pc = "pumps" /\ cycles' # cycles) => \A c \in cycles \ cycles' : c \subseteq nodes
       /\ (pc = "chains" /\ chains' # chains) => \A c \in chains \ chains' : c \subseteq nodes]_vars

\* C12: a step that ends with the candidate rejected leaves the graph, the
\* aggregation reference of every element and the parent of every port as
\* they were.
RejectionMutatesNothing ==
    [][(step' # step /\ step'.kind \in {"rejected", "kept"}) =>
          /\ nodes' = nodes
          /\ edges' = edges
          /\ aggregation' = aggregation
          /\ parent' = parent]_vars

(***************************************************************************)
(* Attribute calculations of the aggregations                              *)
(*                                                                         *)
(* An attribute is a number or NoValue (None).  A quotient is kept as the  *)
(* pair [num, den] of the division that computes it.                       *)
(***************************************************************************)

\* an attribute without value (attribute.py:69, value = None)
NoValue == -1

\* Largest length and diameter of a pipe.
MaxAttr == 2

\* Largest number of elements of a pipe strand.
MaxPipes == 3

AttrValues == {NoValue} \cup 0..MaxAttr

\* `not x` of Python is true for None and for 0
Falsy(x) == x = NoValue \/ x = 0

Pipes == [length : AttrValues, diameter : AttrValues]

\* the elements of the strand in the order of self.elements
PipeLists == UNION {[1..n -> Pipes] : n \in 1..MaxPipes}

\* A loop that adds every pipe, whatever its attributes.
RECURSIVE StrandTotalsOfAll(_)
StrandTotalsOfAll(pipelist) ==
    IF pipelist = <<>> THEN [total_length |-> 0, diameter_times_length |-> 0]
    ELSE LET pipe == Head(pipelist)
             rest == StrandTotalsOfAll(Tail(pipelist))
         IN  [total_length |-> rest.total_length + pipe.length,
              diameter_times_length |->
                  rest.diameter_times_length + pipe.diameter * pipe.length]

\* aggregation.py:184-192: the loop over self.elements; a pipe without
\* length or without diameter is ignored
RECURSIVE StrandTotals(_)
StrandTotals(pipelist) ==
    IF pipelist = <<>> THEN [total_length |-> 0, diameter_times_length |-> 0]
    ELSE LET pipe == Head(pipelist)
             rest == StrandTotals(Tail(pipelist))
         IN  IF Falsy(pipe.length) \/ Falsy(pipe.diameter) THEN rest
             ELSE [total_length |-> rest.total_length + pipe.length,
                   diameter_times_length |->
                       rest.diameter_times_length + pipe.diameter * pipe.length]

\* aggregation.py:176-201 PipeStrand._calc_avg
PipeStrandCalcAvg(pipelist) ==
    LET t == StrandTotals(pipelist)
    IN  [kind |-> "PipeStrand",
         length |-> t.total_length,
         diameter |-> IF t.total_length # 0
                      THEN [num |-> t.diameter_times_length, den |-> t.total_length]
                      ELSE [num |-> 0, den |-> 1]]

\* attribute.py:311-333: the first read of strand.length or strand.diameter
\* runs _calc_avg and stores both
CalcPipeStrand ==
    /\ result = NoResult
    /\ result' = PipeStrandCalcAvg(items)
    /\ UNCHANGED <<portVars, reduceVars, items>>

\* A pipe strand over any list of pipes, its attributes not yet read.
StrandInit ==
    /\ items \in PipeLists
    /\ result = NoResult
    /\ NoPorts
    /\ NoReduction

StrandNext == CalcPipeStrand

SpecStrand == StrandInit /\ [][StrandNext]_vars

RECURSIVE Sum(_, _)
\* the sum of f[i] over the indices in S
Sum(f, S) ==
    IF S = {} THEN 0
    ELSE LET i == CHOOSE j \in S : TRUE IN f[i] + Sum(f, S \ {i})

\* the pipes that have a length and a diameter
Counted(pipelist) ==
    {i \in DOMAIN pipelist : ~Falsy(pipelist[i].length) /\ ~Falsy(pipelist[i].diameter)}

\* C13 as stated: for pipes that all have a length and a diameter the
\* strand has the sum of all lengths as its length, and its diameter d
\* satisfies d * sum(L_i) = sum(D_i * L_i).
StrandOfAllPipes ==
    (result # NoResult
        /\ \A i \in DOMAIN items : items[i].length # NoValue /\ items[i].diameter # NoValue) =>
        /\ result.length = Sum([i \in DOMAIN items |-> items[i].length], DOMAIN items)
        /\ result.diameter.num * Sum([i \in DOMAIN items |-> items[i].length], DOMAIN items)
             = Sum([i \in DOMAIN items |-> items[i].diameter * items[i].length], DOMAIN items)
                 * result.diameter.den

\* C13 amended: the strand has the sum of the lengths of the pipes that
\* have a non-zero length and a non-zero diameter as its length, and its
\* diameter d satisfies d * length = sum(D_i * L_i) over the same pipes; a
\* pipe whose length or diameter is missing or zero counts for neither.
StrandOfCountedPipes ==
    result # NoResult =>
        /\ result.length = Sum([i \in DOMAIN items |-> items[i].length], Counted(items))
        /\ result.diameter.num * result.length
             = Sum([i \in DOMAIN items |-> items[i].diameter * items[i].length], Counted(items))
                 * result.diameter.den

StrandOfCountedPipesWitness ==
    /\ result # NoResult
    /\ Len(items) = 3
    /\ Cardinality(Counted(items)) = 2
    /\ \E i \in DOMAIN items : items[i].diameter = 0 /\ items[i].length > 0
    /\ \E i, k \in Counted(items) : items[i].diameter # items[k].diameter
    /\ result.length > 0

\* aggregation.py:212-218 PipeStrand.find_matches: the chains of pipe
\* types with more than one element
PipeStrandFindMatches(N, E) ==
    {chain \in TypeChains(N, E, PipeTypes) : Cardinality(chain) > 1}

\* a pipe of the graph with at most two neighbours, none of them a pipe: a
\* chain of exactly one element
SinglePipes ==
    {e \in nodes : /\ TypeOf(e) \in PipeTypes
                   /\ Cardinality(Neighbors(nodes, edges, e) \ {e}) <= 2
                   /\ \A m \in Neighbors(nodes, edges, e) : TypeOf(m) \notin PipeTypes}

\* C14: a chain of exactly one pipe is returned by PipeStrand.find_matches,
\* and the PipeStrand constructed from it has two ports whose originals are
\* the two ports of the pipe.
SinglePipeAggregated ==
    pc = "start" =>
        \A e \in SinglePipes :
            LET st == PipeStrandInit(Current, "PipeStrand", edges, {e})
            IN  /\ {e} \in PipeStrandFindMatches(nodes, edges)
                /\ ~st.raised
                /\ Len(st.aggs[Len(st.aggs)].ports) = 2
                /\ Originals(st, Len(st.aggs)) = Range(ports[e])

\* C15: when a step has constructed an aggregation from a candidate, the
\* elements of the aggregation are the nodes of the candidate and the
\* aggregation reference of every one of them is that aggregation.
AggregationOwnsElements ==
    (step.kind = "merged" /\ pc # "failed") =>
        /\ aggs[step.agg].elements = step.candidate
        /\ \A e \in step.candidate : aggregation[e] = AggId(step.agg)

\* Largest rated power, height and volume flow of a pump.
MaxRated == 2

\* Largest number of elements of a parallel pump aggregation.
MaxPumpItems == 2

PumpRecords ==
    [ifc_type : {"IfcPump"}, rated_power : 0..MaxRated, rated_height : 0..MaxRated,
     rated_volume_flow : 0..MaxRated]

\* an element of the aggregation that is no pump
FittingRecord ==
    [ifc_type |-> "IfcPipeFitting", rated_power |-> NoValue, rated_height |-> NoValue,
     rated_volume_flow |-> NoValue]

\* the elements of the aggregation in the order of self.elements
PumpLists == UNION {[1..n -> PumpRecords \cup {FittingRecord}] : n \in 1..MaxPumpItems}

\* aggregation.py:564-570: the values before the loop
PumpTotalsStart ==
    [max_rated_height |-> 0, total_rated_volume_flow |-> 0, total_rated_power |-> 0]

\* A loop body that keeps the power and the volume flow of the pump it
\* visits instead of adding them.
PumpVisitedAssigning(acc, item) ==
    IF item.ifc_type # "IfcPump" THEN acc
    ELSE [max_rated_height |-> item.rated_height,
          total_rated_volume_flow |-> item.rated_volume_flow,
          total_rated_power |-> item.rated_power]

\* aggregation.py:572-584: the loop body for one element; only a pump
\* changes the rated values
PumpVisited(acc, item) ==
    IF item.ifc_type # "IfcPump" THEN acc
    ELSE [max_rated_height |->
              IF acc.max_rated_height # 0
              THEN (IF item.rated_height < acc.max_rated_height
                    THEN item.rated_height ELSE acc.max_rated_height)
              ELSE item.rated_height,
          total_rated_volume_flow |-> acc.total_rated_volume_flow + item.rated_volume_flow,
          total_rated_power |-> acc.total_rated_power + item.rated_power]

RECURSIVE PumpTotals(_, _)
\* aggregation.py:572: for item in self.elements
PumpTotals(acc, itemlist) ==
    IF itemlist = <<>> THEN acc
    ELSE PumpTotals(PumpVisited(acc, Head(itemlist)), Tail(itemlist))

\* aggregation.py:561-612 ParallelPump._calc_avg, the rated values
ParallelPumpCalcAvg(itemlist) ==
    LET t == PumpTotals(PumpTotalsStart, itemlist)
    IN  [kind |-> "ParallelPump",
         rated_power |-> t.total_rated_power,
         rated_height |-> t.max_rated_height,
         rated_volume_flow |-> t.total_rated_volume_flow]

\* attribute.py:311-333: the first read of a rated value runs _calc_avg
CalcParallelPump ==
    /\ result = NoResult
    /\ result' = ParallelPumpCalcAvg(items)
    /\ UNCHANGED <<portVars, reduceVars, items>>

\* A parallel pump aggregation over any list of elements, not yet read.
PumpsInit ==
    /\ items \in PumpLists
    /\ result = NoResult
    /\ NoPorts
    /\ NoReduction

PumpsNext == CalcParallelPump

SpecPumps == PumpsInit /\ [][PumpsNext]_vars

\* the pumps among the elements
PumpsOf(itemlist) == {i \in DOMAIN itemlist : itemlist[i].ifc_type = "IfcPump"}

\* C16: with at least one pump the rated_height of the aggregation is the
\* least rated_height of its pumps, in whatever order they are visited.
RatedHeightIsMinimum ==
    (result # NoResult /\ PumpsOf(items) # {}) =>
        /\ \E i \in PumpsOf(items) : result.rated_height = items[i].rated_height
        /\ \A i \in PumpsOf(items) : result.rated_height <= items[i].rated_height

MinPlaneShare == 80

\* aggregation.py:336: the least heating area
MinHeatingArea == 1000000

\* aggregation.py:344-345: the limits of the spacing
MinSpacing == 90
MaxSpacing == 210

\* aggregation.py:354: the limits of the density, in thousandths
MinDensity == 10
MaxDensity == 90

ElementCounts == {MinUfhElements - 1, MinUfhElements}
PlaneShares == {MinPlaneShare - 1, MinPlaneShare}
Spans == {900, 1500, 2100, 2200}
OrientedCounts == {0, 1, 2, 11}
TotalLengths == {0, 1}
Densities == {MinDensity, 50, MaxDensity}

Measurements ==
    [n : ElementCounts, share : PlaneShares, span_x : Spans, span_y : Spans,
     y_oriented : OrientedCounts, x_oriented : OrientedCounts,
     total_length : TotalLengths, density : Densities]

\* a local variable that was never assigned
Unbound == [num |-> 0, den |-> 0]

\* aggregation.py:340-343: span / (count - 1), left unassigned when the
\* count is 1
Spacing(span, count) ==
    IF count - 1 # 0 THEN [num |-> span, den |-> count - 1] ELSE Unbound

\* a < q and q < b for a quotient q
Above(q, a) == IF q.den > 0 THEN a * q.den < q.num ELSE a * q.den > q.num
Below(q, b) == IF q.den > 0 THEN q.num < b * q.den ELSE q.num > b * q.den

\* A spacing test that accepts the limits themselves.
SpacingInRangeClosed(q) == ~Below(q, MinSpacing) /\ ~Above(q, MaxSpacing)

\* aggregation.py:344-345: 90 < spacing < 210
SpacingInRange(q) == Above(q, MinSpacing) /\ Below(q, MaxSpacing)

Rejected_(stage) == [kind |-> "rejected", stage |-> stage]
Raised_(stage) == [kind |-> "raised", stage |-> stage]

\* aggregation.py:270-366 check_conditions: the meta dict, None (rejected at
\* a stage), or an exception.  Reading an unassigned spacing raises
\* UnboundLocalError; `or` reads y_spacing only when x_spacing is out of
\* range; total_length = 0 raises ZeroDivisionError at 350.
check_conditions(m) ==
    LET x_spacing == Spacing(m.span_x, m.y_oriented)
        y_spacing == Spacing(m.span_y, m.x_oriented)
    IN  IF m.n < MinUfhElements THEN Rejected_("count")
        ELSE IF m.share < MinPlaneShare THEN Rejected_("plane")
        ELSE IF m.span_x * m.span_y < MinHeatingArea THEN Rejected_("area")
        ELSE IF x_spacing = Unbound THEN Raised_("spacing")
        ELSE IF ~SpacingInRange(x_spacing) /\ y_spacing = Unbound THEN Raised_("spacing")
        ELSE IF ~SpacingInRange(x_spacing) /\ ~SpacingInRange(y_spacing)
             THEN Rejected_("spacing")
        ELSE IF m.total_length = 0 THEN Raised_("density")
        ELSE IF ~(MaxDensity > m.density /\ m.density > MinDensity) THEN Rejected_("density")
        ELSE IF y_spacing = Unbound THEN Raised_("meta")
        ELSE [kind |-> "meta", stage |-> "meta",
              length |-> m.total_length,
              heating_area |-> m.span_x * m.span_y,
              x_spacing |-> x_spacing,
              y_spacing |-> y_spacing]

\* aggregation.py:255-268 find_matches, for one chain: check_conditions is
\* called and an exception it raises is not caught
CheckConditions ==
    /\ result = NoResult
    /\ result' = check_conditions(items)
    /\ UNCHANGED <<portVars, reduceVars, items>>

\* A chain with any measurements, not yet checked.
UnderfloorInit ==
    /\ items \in Measurements
    /\ result = NoResult
    /\ NoPorts
    /\ NoReduction

UnderfloorNext == CheckConditions

SpecUnderfloor == UnderfloorInit /\ [][UnderfloorNext]_vars

\* the chain passed the count, z plane and heating area checks and both
\* spacings have a value
SpacingDecides ==
    /\ result # NoResult
    /\ items.n >= MinUfhElements
    /\ items.share >= MinPlaneShare
    /\ items.span_x * items.span_y >= MinHeatingArea
    /\ items.y_oriented # 1
    /\ items.x_oriented # 1

\* the spacing criterion was passed: the check went on to the density
PassedSpacing == result.stage \in {"density", "meta"}

CheckNeverRaises ==
    result # NoResult =>
        \/ result.kind = "rejected"
        \/ /\ result.kind = "meta"
           /\ {"length", "heating_area", "x_spacing", "y_spacing"} \subseteq DOMAIN result

(***************************************************************************)
(* HvacGraph.get_type_chains on any small graph                            *)
(***************************************************************************)

\* the most nodes of a graph the chains are taken from
MaxGraph == 4

\* the types of the nodes: one that is asked for and one that is not
GraphTypes == {"IfcPipeSegment", "IfcValve"}

\* the graphs of nodes 1..k: any types, any edges between different nodes
TypedGraphs ==
    UNION {[N : {1..k},
            T : [1..k -> GraphTypes],
            E : SUBSET {<<u, v>> \in (1..k) \X (1..k) : u < v}] : k \in 1..MaxGraph}

\* hvac_graph.py:216 nx.shortest_path between the two end nodes of a run:
\* the run walked from one end
RECURSIVE Walk(_, _, _)
Walk(N, E, path) ==
    LET onward == {m \in Neighbors(N, E, path[Len(path)]) : ~InSeq(path, m)}
    IN  IF onward = {} THEN path
        ELSE Walk(N, E, Append(path, CHOOSE m \in onward : TRUE))

\* hvac_graph.py:200-219 get_type_chains: the lists it can return.  Each
\* run of TypeChains is ordered from one of its two end nodes; which one
\* depends on the order of the nodes in the graph.
get_type_chains(N, E, types) ==
    LET D == ChainNodes(N, E, types)
        sub == Within(E, D)
        runs == TypeChains(N, E, types)
        Ends(C) == {v \in C : Degree(D, sub, v) = 1}
    IN  {{Walk(C, Within(E, C), <<first[C]>>) : C \in runs} :
            first \in {f \in [runs -> N] : \A C \in runs : f[C] \in Ends(C)}}

\* aggregation.py:212-218: find_matches asks for the chains of its types
GetTypeChains ==
    /\ result = NoResult
    /\ \E chain_lists \in get_type_chains(nodes, edges, PipeTypes) :
           result' = [kind |-> "chains", chain_lists |-> chain_lists]
    /\ UNCHANGED <<portVars, reduceVars, items>>

\* Any small graph, no chains taken yet.
ChainsInit ==
    /\ \E g \in TypedGraphs :
          /\ nodes = g.N
          /\ ifc_type = g.T
          /\ edges = g.E
    /\ instances = {}
    /\ aggregation = <<>>
    /\ assigned = <<>>
    /\ aggs = <<>>
    /\ contraction = <<>>
    /\ pipes = "full"
    /\ pc = "idle"
    /\ cycles = {}
    /\ chains = {}
    /\ counters = <<>>
    /\ step = NoStep
    /\ items = <<>>
    /\ result = NoResult
    /\ NoPorts

ChainsNext == GetTypeChains

SpecChains == ChainsInit /\ [][ChainsNext]_vars

\* a node of a wanted type with at most two neighbours
Eligible(v) == TypeOf(v) \in PipeTypes /\ Degree(nodes, edges, v) <= 2

\* C20: the chains partition the eligible nodes: every node of a wanted
\* type and of degree at most 2 (an isolated node, a dead end and the nodes
\* of a closed cycle of such nodes included) is in exactly one chain, a
\* chain holds only such nodes, and consecutive nodes of a chain are
\* adjacent.
ChainsPartitionEligible ==
    result.kind = "chains" =>
        /\ \A v \in nodes :
              Eligible(v) =>
                 Cardinality({c \in result.chain_lists : InSeq(c, v)}) = 1
        /\ \A c \in result.chain_lists :
              /\ \A i \in 1..Len(c) : Eligible(c[i])
              /\ \A i, j \in 1..Len(c) : c[i] = c[j] => i = j
              /\ \A i \in 1..(Len(c) - 1) : c[i + 1] \in Neighbors(nodes, edges, c[i])

\* C21: with the pipes level of detail `full`, a chain that is not accepted
\* as underfloor heating is kept raw: no aggregate is created, no element
\* of the chain leaves the graph, and the aggregation of every element of
\* the chain stays unset.
FullKeepsChainsRaw ==
    [][(pc = "chains" /\ pipes = "full" /\ chains' # chains /\ step'.kind = "kept") =>
          /\ aggs' = aggs
          /\ step'.candidate \subseteq nodes'
          /\ \A e \in step'.candidate : aggregation'[e] = NoAgg]_vars

(***************************************************************************)
(* The registries Root.objects, BaseElement.objects and BasePort.objects   *)
(*                                                                         *)
(* A constructor adds the new object under its guid (element.py:42, 352,   *)
(* 387).  The only code that removes an entry is __del__ (130-131,         *)
(* 454-455), which runs when the last reference to the object is gone; the *)
(* registry holds a reference itself, so no entry is ever removed and a    *)
(* registry holds everything constructed so far.                           *)
(***************************************************************************)

\* element.py:346-355: the elements and the aggregations constructed
BaseElementObjects == instances \cup AggIds

\* element.py:379-387: the ports and the AggregationPorts constructed
BasePortObjects == UNION {PortsOf(n) : n \in BaseElementObjects}

\* element.py:33-44: every element and every port constructed
RootObjects == BaseElementObjects \cup BasePortObjects

\* the elements that a merge has taken out of the graph
Absorbed == instances \ nodes

\* C22: after a reduction job no registry holds an entry for an absorbed
\* element or for one of its ports.
RegistriesDropAbsorbed ==
    pc = "done" =>
        \A e \in Absorbed :
            /\ e \notin RootObjects
            /\ e \notin BaseElementObjects
            /\ PortsOf(e) \cap (RootObjects \cup BasePortObjects) = {}

\* the ports of a deleted chain that were connected to a port outside it
BoundaryPorts(chain) == OuterPorts(chain, chain)

MaxReads == 3

\* the attributes of the batch, those of a PipeStrand (aggregation.py:220-230)
BatchNames == {"length", "diameter"}

\* What the decorated function does when it is called: it returns a dict
\* with a value for every name, it returns None (a body of `pass`,
\* aggregation.py:371-373), or it raises.
FunctionOutcomes ==
    [kind : {"dict"}, values : [BatchNames -> AttrValues]]
      \cup {[kind |-> "none"], [kind |-> "raises"]}

\* attribute.py:297-302, 352-358: a new manager holds (None, UNKNOWN) for
\* every attribute
NewManager(names) == [n \in names |-> [value |-> NoValue, status |-> "UNKNOWN"]]

\* attribute.py:408-420 multi_calc inside get_from_functions (167-178): the
\* function is called, the value of `name` is popped and the other values
\* are sent to the manager, each as (value, AVAILABLE) (365-369).  A result
\* of None makes result.pop raise; get_from_functions catches every
\* exception and the value stays None.
multi_calc(attributes, name, outcome) ==
    IF outcome.kind = "dict"
    THEN [value |-> outcome.values[name],
          attributes |-> [n \in DOMAIN attributes |->
                             IF n # name /\ n \in DOMAIN outcome.values
                             THEN [value |-> outcome.values[n], status |-> "AVAILABLE"]
                             ELSE attributes[n]]]
    ELSE [value |-> NoValue, attributes |-> attributes]

\* attribute.py:311-333 Attribute.__get__ with _get_value (68-113) for an
\* attribute whose only source is the function: the value is calculated
\* when it is None and the status is UNKNOWN, and written back with the
\* status AVAILABLE or, for a value that is None or zero, NOT_AVAILABLE
AttributeGet(attributes, name, outcome) ==
    LET calc == multi_calc(attributes, name, outcome)
    IN  IF attributes[name].value = NoValue /\ attributes[name].status = "UNKNOWN"
        THEN [value |-> calc.value,
              executed |-> 1,
              attributes |-> [calc.attributes EXCEPT ![name] =
                                 [value |-> calc.value,
                                  status |-> IF Falsy(calc.value) THEN "NOT_AVAILABLE"
                                             ELSE "AVAILABLE"]]]
        ELSE [value |-> attributes[name].value, executed |-> 0, attributes |-> attributes]

\* one read of an attribute of the batch
ReadAttribute ==
    /\ result.kind = "attributes"
    /\ result.reads < MaxReads
    /\ \E name \in BatchNames :
          LET got == AttributeGet(result.attributes, name, items)
          IN  result' = [kind |-> "attributes",
                         attributes |-> got.attributes,
                         executions |-> result.executions + got.executed,
                         reads |-> result.reads + 1,
                         name |-> name,
                         value |-> got.value]
    /\ UNCHANGED <<portVars, reduceVars, items>>

\* An aggregate whose function behaves in any one way, nothing read yet.
MultiCalcInit ==
    /\ items \in FunctionOutcomes
    /\ result = [kind |-> "attributes", attributes |-> NewManager(BatchNames),
                 executions |-> 0, reads |-> 0, name |-> "", value |-> NoValue]
    /\ NoPorts
    /\ NoReduction

MultiCalcNext == ReadAttribute

SpecMultiCalc == MultiCalcInit /\ [][MultiCalcNext]_vars

\* C24: for any sequence of reads of the attributes of one batch the
\* function is executed at most once, and after the first read every
\* attribute of the batch holds the value of that execution.
MultiCalcOnce ==
    /\ result.executions <= 1
    /\ (result.reads >= 1 /\ items.kind = "dict") =>
          \A n \in BatchNames : result.attributes[n].value = items.values[n]
    /\ (result.reads >= 1) => result.executions = 1

(***************************************************************************)
(* Consumer.find_matches and ConsumerHeatingDistributorModule.find_matches *)
(* on any small graph of elements and aggregations                         *)
(***************************************************************************)

\* the most nodes of a graph the consumer matchers are given
MaxMatchGraph == 3

\* the classes of the nodes: elements and aggregations
NodeClasses ==
    {"SpaceHeater", "Boiler", "Distributor", "PipeSegment", "PipeStrand",
     "UnderfloorHeating"}

AggregationClasses == {"PipeStrand", "UnderfloorHeating", "ParallelSpaceHeater", "Consumer"}

\* the ifc_type of a class; aggregation.py:50: no aggregation class sets
\* one, so every aggregation has the ifc_type None of Aggregation
IfcTypeOfClass(class) ==
    IF class \in AggregationClasses THEN "None"
    ELSE IF class = "SpaceHeater" THEN "IfcSpaceHeater"
    ELSE IF class = "Boiler" THEN "IfcBoiler"
    ELSE IF class = "Chiller" THEN "IfcChiller"
    ELSE IF class = "CoolingTower" THEN "IfcCoolingTower"
    ELSE IF class = "Distributor" THEN "IfcDistributionChamberElement"
    ELSE "IfcPipeSegment"

\* aggregation.py:971-972
ConsumerWhitelist ==
    {IfcTypeOfClass(c) : c \in {"SpaceHeater", "ParallelSpaceHeater", "UnderfloorHeating"}}

ConsumerBlacklist == {IfcTypeOfClass(c) : c \in {"Chiller", "Boiler", "CoolingTower"}}

\* aggregation.py:1233-1235: the module compares classes
ModuleWhitelist == {"SpaceHeater", "ParallelSpaceHeater", "UnderfloorHeating", "Consumer"}

ModuleBlacklist == {"Chiller", "Boiler", "CoolingTower"}

\* aggregation.py:1004, 1271
BoarderClass == {IfcTypeOfClass("Distributor")}

RECURSIVE ListOfSets(_)
\* the sets of a family of disjoint non-empty sets of numbers as a list
ListOfSets(F) ==
    IF F = {} THEN <<>>
    ELSE LET first == CHOOSE S \in F : \A T \in F : Max(S) <= Max(T) \/ S = T
         IN  <<first>> \o ListOfSets(F \ {first})

\* the elements of sub with a port connected to a port of a removed node
OuterConnected(E, sub, remove) ==
    {ele \in sub : Neighbors(remove \cup {ele}, E, ele) \ {ele} # {}}

\* aggregation.py:1000-1051 Consumer.find_matches: the distributors are
\* removed (1013-1014); a connected component of the rest without a node
\* of a blacklisted ifc_type and with a node of a whitelisted ifc_type is
\* returned (1028-1049) with the elements next to a distributor as meta
ConsumerFindMatches(N, E) ==
    LET remove == {node \in N : TypeOf(node) \in BoarderClass}
        rest == N \ remove
        sub_graphs == ListOfSets(Components(rest, Within(E, rest)))
        Kept(sub) == /\ {node \in sub : TypeOf(node) \in ConsumerBlacklist} = {}
                     /\ {node \in sub : TypeOf(node) \in ConsumerWhitelist} # {}
        kept == SelectSeq(sub_graphs, Kept)
    IN  [kind |-> "matches",
         matcher |-> "Consumer",
         subgraphs |-> kept,
         metas |-> [i \in DOMAIN kept |-> OuterConnected(E, kept[i], remove)]]

\* aggregation.py:1284-1333, for one distributor: only this distributor is
\* removed; the nodes of every component of the rest without a node of a
\* blacklisted class and with a node of a whitelisted class are collected
\* and returned together with the distributor
ModuleOfDistributor(N, E, class, dist) ==
    LET rest == N \ {dist}
        sub_graphs == Components(rest, Within(E, rest))
        consumer_cycles == {sub \in sub_graphs :
                               /\ {node \in sub : class[node] \in ModuleBlacklist} = {}
                               /\ {node \in sub : class[node] \in ModuleWhitelist} # {}}
        others == sub_graphs \ consumer_cycles
    IN  [subgraph |-> {dist} \cup UNION consumer_cycles,
         meta |-> [outer_connections |->
                       UNION {OuterConnected(E, sub, {dist}) :
                                sub \in {t \in others :
                                           /\ \E node \in t : class[node] \in ModuleBlacklist
                                           /\ \A node \in t : class[node] \notin ModuleWhitelist}},
                   undefined_consumer_ports |->
                       UNION {OuterConnected(E, sub, {dist}) :
                                sub \in {t \in others :
                                           \A node \in t : class[node] \notin ModuleBlacklist}}]]

\* aggregation.py:1267-1336 ConsumerHeatingDistributorModule.find_matches:
\* one result and one meta per distributor
ModuleFindMatches(N, E, class) ==
    LET remove == SeqOf({node \in N : TypeOf(node) \in BoarderClass})
    IN  [kind |-> "matches",
         matcher |-> "ConsumerHeatingDistributorModule",
         subgraphs |-> [i \in DOMAIN remove |-> ModuleOfDistributor(N, E, class, remove[i]).subgraph],
         metas |-> [i \in DOMAIN remove |-> ModuleOfDistributor(N, E, class, remove[i]).meta]]

ConsumerMatch ==
    /\ result = NoResult
    /\ result' = ConsumerFindMatches(nodes, edges)
    /\ UNCHANGED <<portVars, reduceVars, items>>

ModuleMatch ==
    /\ result = NoResult
    /\ result' = ModuleFindMatches(nodes, edges, items)
    /\ UNCHANGED <<portVars, reduceVars, items>>

\* the graphs of nodes 1..k: any classes, any edges between different nodes
ClassGraphs ==
    UNION {[N : {1..k},
            C : [1..k -> NodeClasses],
            E : SUBSET {<<u, v>> \in (1..k) \X (1..k) : u < v}] : k \in 1..MaxMatchGraph}

\* Any small graph, no matcher called yet.
MatchersInit ==
    /\ \E g \in ClassGraphs :
          /\ nodes = g.N
          /\ items = g.C
          /\ ifc_type = [n \in g.N |-> IfcTypeOfClass(g.C[n])]
          /\ edges = g.E
    /\ instances = {}
    /\ aggregation = <<>>
    /\ assigned = <<>>
    /\ aggs = <<>>
    /\ contraction = <<>>
    /\ pipes = "full"
    /\ pc = "idle"
    /\ cycles = {}
    /\ chains = {}
    /\ counters = <<>>
    /\ step = NoStep
    /\ result = NoResult
    /\ NoPorts

MatchersNext == ConsumerMatch \/ ModuleMatch

SpecMatchers == MatchersInit /\ [][MatchersNext]_vars

\* the connected components of the graph without its distributors
ComponentsWithoutDistributors ==
    LET rest == {n \in nodes : items[n] # "Distributor"}
    IN  Components(rest, Within(edges, rest))

\* C25: Consumer.find_matches returns a component of the graph without its
\* distributors exactly when the component has no generator (boiler,
\* chiller, cooling tower) and at least one space heater, parallel space
\* heater or underfloor heating; no distributor is in a returned candidate.
ConsumerReturnsPureConsumers ==
    (result.kind = "matches" /\ result.matcher = "Consumer") =>
        /\ Range(result.subgraphs) \subseteq ComponentsWithoutDistributors
        /\ \A sub \in ComponentsWithoutDistributors :
              sub \in Range(result.subgraphs) <=>
                  /\ \A n \in sub : items[n] \notin {"Boiler", "Chiller", "CoolingTower"}
                  /\ \E n \in sub : items[n] \in {"SpaceHeater", "ParallelSpaceHeater",
                                                   "UnderfloorHeating"}
        /\ \A sub \in Range(result.subgraphs) : \A n \in sub : items[n] # "Distributor"

\* C28: the candidates of one find_matches call are pairwise disjoint and
\* come with as many metas, for Consumer and for
\* ConsumerHeatingDistributorModule, also with two or more distributors.
MatchesDisjoint ==
    result.kind = "matches" =>
        /\ Len(result.metas) = Len(result.subgraphs)
        /\ \A i, j \in DOMAIN result.subgraphs :
              i # j => result.subgraphs[i] \cap result.subgraphs[j] = {}

(***************************************************************************)
(* Aggregation.get_edge_ports_of_strait on any subgraph of a small         *)
(* installation, open ports included                                       *)
(***************************************************************************)

\* the number of elements of the installations; element 1 has three ports,
\* every other element two
MaxStrait == 3

StraitPorts(k) == {Port(1, 3)} \cup {Port(e, i) : e \in 1..k, i \in 1..2}

RECURSIVE Matchings(_)
\* element.py:399-410: the sets of connections of ports of different
\* elements in which every port has at most one peer
Matchings(P) ==
    IF P = {} THEN {{}}
    ELSE LET p == CHOOSE x \in P : \A y \in P : x <= y
             rest == P \ {p}
         IN  Matchings(rest)
               \cup UNION {{{<<p, q>>} \cup m : m \in Matchings(rest \ {q})} :
                             q \in {r \in rest : r \div PortBase # p \div PortBase}}

StraitInstallations ==
    UNION {[ifc_type : {[e \in 1..k |-> "IfcPipeSegment"]},
            nports : {[e \in 1..k |-> IF e = 1 THEN 3 ELSE 2]},
            links : Matchings(StraitPorts(k))] : k \in 2..MaxStrait}

\* aggregation.py:160-170: PipeStrand.__init__ asks for the edge ports of
\* the subgraph it is given
GetEdgePortsOfStrait ==
    /\ result = NoResult
    /\ LET r == get_edge_ports_of_strait(edges, items)
       IN  result' = [kind |-> "edge_ports", raised |-> r.raised, ports |-> r.ports]
    /\ UNCHANGED <<portVars, reduceVars, items>>

\* Any installation with its graph built, and any subgraph of it.
StraitInit ==
    /\ \E inst \in StraitInstallations : Installed(inst)
    /\ nodes = BuiltNodes(instances)
    /\ edges = BuiltEdges(instances)
    /\ contraction = BuiltContraction(instances)
    /\ items \in (SUBSET instances) \ {{}}
    /\ pipes = "full"
    /\ pc = "idle"
    /\ cycles = {}
    /\ chains = {}
    /\ counters = <<>>
    /\ step = NoStep
    /\ result = NoResult

StraitNext == GetEdgePortsOfStrait

SpecStrait == StraitInit /\ [][StraitNext]_vars

\* the elements of the subgraph S with exactly one neighbour in S
EndpointElements(S) == {v \in S : Degree(S, Within(edges, S), v) = 1}

\* S is a simple chain: connected, two endpoint elements, every other
\* element with two neighbours in S
SimpleChain(S) ==
    /\ Reach(S, Within(edges, S), {CHOOSE v \in S : TRUE}) = S
    /\ Cardinality(EndpointElements(S)) = 2
    /\ \A v \in S \ EndpointElements(S) : Degree(S, Within(edges, S), v) = 2

\* C26: for a simple chain get_edge_ports_of_strait returns exactly two
\* ports, one on each endpoint element, each connected to a port of an
\* element outside the subgraph; for a subgraph without exactly two
\* endpoint elements or with more than two outward-connected endpoint
\* ports it raises.
StraitEdgePorts ==
    result.kind = "edge_ports" =>
        /\ SimpleChain(items) /\ Cardinality(OuterPorts(items, EndpointElements(items))) <= 2
             => /\ ~result.raised
                /\ Cardinality(result.ports) = 2
                /\ \A e \in EndpointElements(items) :
                      Cardinality({p \in result.ports : parent[p] = e}) = 1
                /\ \A p \in result.ports :
                      connection[p] # NoPort /\ parent[connection[p]] \notin items
        /\ (\/ Cardinality(EndpointElements(items)) # 2
            \/ Cardinality(OuterPorts(items, EndpointElements(items))) > 2)
             => result.raised

(***************************************************************************)
(* UnderfloorHeating.__init__ with the metadata of the matcher             *)
(***************************************************************************)

\* aggregation.py:375-389: the attributes of UnderfloorHeating._calc_avg
UnderfloorNames == {"heating_area", "x_spacing", "y_spacing"}

\* the metadata passed as keyword arguments; a key that is missing is None
\* (238-240)
UnderfloorMetas == [UnderfloorNames -> AttrValues]

\* attribute.py:335-343 Attribute.__set__: the value is stored as AVAILABLE
AttributeSet(attributes, name, value) ==
    [attributes EXCEPT ![name] = [value |-> value, status |-> "AVAILABLE"]]

\* aggregation.py:237-253 UnderfloorHeating.__init__: a value that is not
\* None and not zero is stored; line 250 stores x_spacing under y_spacing
UnderfloorHeatingAttributes(meta) ==
    LET a0 == NewManager(UnderfloorNames)
        a1 == IF ~Falsy(meta.x_spacing) THEN AttributeSet(a0, "x_spacing", meta.x_spacing)
              ELSE a0
        a2 == IF ~Falsy(meta.y_spacing) THEN AttributeSet(a1, "y_spacing", meta.x_spacing)
              ELSE a1
    IN  IF ~Falsy(meta.heating_area) THEN AttributeSet(a2, "heating_area", meta.heating_area)
        ELSE a2

ConstructUnderfloorHeating ==
    /\ result = NoResult
    /\ result' = [kind |-> "attributes",
                  attributes |-> UnderfloorHeatingAttributes(items),
                  executions |-> 0, reads |-> 0, name |-> "", value |-> NoValue]
    /\ UNCHANGED <<portVars, reduceVars, items>>

\* aggregation.py:371-373: _calc_avg of UnderfloorHeating is `pass`
UnderfloorCalcAvg == [kind |-> "none"]

\* one read of an attribute of the underfloor heating
ReadUnderfloorAttribute ==
    /\ result.kind = "attributes"
    /\ result.reads < MaxReads
    /\ \E name \in UnderfloorNames :
          LET got == AttributeGet(result.attributes, name, UnderfloorCalcAvg)
          IN  result' = [kind |-> "attributes",
                         attributes |-> got.attributes,
                         executions |-> result.executions + got.executed,
                         reads |-> result.reads + 1,
                         name |-> name,
                         value |-> got.value]
    /\ UNCHANGED <<portVars, reduceVars, items>>

\* Any metadata, the aggregate not yet constructed.
UnderfloorAttrsInit ==
    /\ items \in UnderfloorMetas
    /\ result = NoResult
    /\ NoPorts
    /\ NoReduction

UnderfloorAttrsNext == ConstructUnderfloorHeating \/ ReadUnderfloorAttribute

SpecUnderfloorAttrs == UnderfloorAttrsInit /\ [][UnderfloorAttrsNext]_vars

\* C27: an UnderfloorHeating built from metadata reads back x_spacing,
\* y_spacing and heating_area equal to the values passed in.
MetadataReadsBack ==
    (result.kind = "attributes" /\ result.reads >= 1) =>
        result.value = items[result.name]

(***************************************************************************)
(* Inspect.connections_by_position and the connect calls of Inspect.run    *)
(***************************************************************************)

\* Largest coordinate of a port; a position is one coordinate.
MaxPosition == 2

\* hvac.py:86: eps
Eps == 1

Positions == [PortIds -> 0..MaxPosition]

\* hvac.py:75-83, 91: max(abs(delta)) of the positions of two ports
PortDistance(position, port1, port2) ==
    IF position[port1] >= position[port2] THEN position[port1] - position[port2]
    ELSE position[port2] - position[port1]

\* itertools.combinations(ports, 2): the pairs in the order of the ports
Combinations(P) ==
    LET codes == SeqOf({PortBase * a + b : a, b \in P})
        kept == SelectSeq(codes, LAMBDA c : c \div PortBase < c % PortBase)
    IN  [i \in DOMAIN kept |-> <<kept[i] \div PortBase, kept[i] % PortBase>>]

\* hvac.py:85-95 connections_by_position: every pair of ports closer than
\* eps
connections_by_position(position, P) ==
    SelectSeq(Combinations(P),
              LAMBDA pair : PortDistance(position, pair[1], pair[2]) < Eps)

\* hvac.py:231-234: the pairs of the ports that are not connected yet
FindPositionConnections ==
    /\ result = NoResult
    /\ result' = [kind |-> "connections",
                  pos_connections |->
                      connections_by_position(items, {p \in PortIds : ~is_connected(p)}),
                  done |-> 0,
                  raised |-> FALSE]
    /\ UNCHANGED <<portVars, reduceVars, items>>

\* hvac.py:237-238: port1.connect(port2) for the next pair; an exception
\* ends the loop
ConnectByPosition ==
    /\ result.kind = "connections"
    /\ ~result.raised
    /\ result.done < Len(result.pos_connections)
    /\ LET pair == result.pos_connections[result.done + 1]
       IN  /\ connection' = IF ConnectRaises(pair[1], pair[2]) THEN connection
                             ELSE Connected(pair[1], pair[2])
           /\ call' = [op |-> "connect", self |-> pair[1], other |-> pair[2],
                       raised |-> ConnectRaises(pair[1], pair[2])]
           /\ result' = [result EXCEPT !.done = @ + 1,
                                       !.raised = ConnectRaises(pair[1], pair[2])]
    /\ UNCHANGED <<parent, ports, flow_master, flow_direction, reduceVars, items>>

\* The ports at any positions, none connected.
PositionInit ==
    /\ connection = [p \in PortIds |-> NoPort]
    /\ parent = [p \in PortIds |-> NoElement]
    /\ ports = <<>>
    /\ flow_master = [p \in PortIds |-> FALSE]
    /\ flow_direction = [p \in PortIds |-> <<>>]
    /\ call = NoCall
    /\ NoReduction
    /\ items \in Positions
    /\ result = NoResult

PositionNext == FindPositionConnections \/ ConnectByPosition

SpecPosition == PositionInit /\ [][PositionNext]_vars

\* C29: each port is in at most one pair of connections_by_position, and
\* connecting the pairs in order never raises.
PositionPairsDisjoint ==
    result.kind = "connections" =>
        /\ \A i, j \in DOMAIN result.pos_connections :
              i # j => {result.pos_connections[i][1], result.pos_connections[i][2]}
                          \cap {result.pos_connections[j][1], result.pos_connections[j][2]} = {}
        /\ ~result.raised

\* ---------------------------------------------------------------------
\* DeadEnds: identify_dead_ends and decide_dead_ends on the port graph
\* ---------------------------------------------------------------------

MaxDeadEnd == 3

\* Installations of up to MaxDeadEnd elements; element 1 has two or three
\* ports, the others two; any ports may be left open.
DeadEndInstallations ==
    UNION {[ifc_type : {[e \in 1..k |-> "IfcPipeSegment"]},
            nports : {[e \in 1..k |-> IF e = 1 THEN n ELSE 2]},
            links : Matchings({Port(e, i) : e \in 1..k, i \in 1..2}
                                \cup {Port(1, i) : i \in 3..n})] :
           k \in 1..MaxDeadEnd, n \in 2..3}

\* task/hvac/dead_ends.py:37-43 (task/dead_ends.py:24-34): with the inner
\* edges of every element removed, the ports of degree 0 are the ports
\* connected to no port of the graph
identify_dead_ends(N) ==
    {p \in N : connection[p] = NoPort \/ connection[p] \notin N}

RECURSIVE PathFrom(_, _, _)
\* One element of the path: the port p it is entered by, the ports on its
\* other side, and the port connected to those.  The path ends where the
\* network ends or at a port of an element with more than two ports, which
\* is an edge of the path.
PathFrom(N, p, seen) ==
    LET across == {q \in Range(ports[parent[p]]) \cap N : q # p}
        next == {connection[q] : q \in {x \in across : connection[x] # NoPort}} \cap N
        here == seen \cup {p} \cup across
        junctions == {r \in next : Len(ports[parent[r]]) > 2}
        onward == (next \ junctions) \ here
    IN  IF onward = {} THEN here \cup junctions
        ELSE PathFrom(N, CHOOSE r \in onward : TRUE, here \cup junctions)

\* HvacGraph.get_path_without_junctions(graph, root, include_edges=True):
\* the ports of the path from root through elements of two ports, the
\* junction port that ends it included
get_path_without_junctions(N, root) == PathFrom(N, root, {})

\* task/hvac/dead_ends.py:61-77 (task/dead_ends.py:39-56): the ports to
\* remove for one dead end: the port alone when its element has more than
\* two ports, otherwise the ports of its strand
remove_ports(N, dead_end) ==
    IF Len(ports[parent[dead_end]]) > 2 THEN {dead_end}
    ELSE get_path_without_junctions(N, dead_end)

RECURSIVE CountRemoved(_, _)
\* task/hvac/dead_ends.py:80-83 and 99-104 (task/dead_ends.py:71-79):
\* n_removed += len(set(remove)) for every confirmed dead end
CountRemoved(N, confirmed) ==
    IF confirmed = {} THEN 0
    ELSE LET d == CHOOSE x \in confirmed : \A y \in confirmed : x <= y
         IN  Cardinality(remove_ports(N, d)) + CountRemoved(N, confirmed \ {d})

\* task/hvac/dead_ends.py:46-111 (task/dead_ends.py:36-85): the removal
\* lists are computed for all potential dead ends first; then, for every
\* confirmed one, the count grows by the length of its list and the ports
\* of the list that are still in the graph are removed.  With force every
\* potential dead end is confirmed.
DecideDeadEnds ==
    /\ result = NoResult
    /\ \E confirmed \in SUBSET identify_dead_ends(items) :
          /\ result' = [kind |-> "dead_ends",
                        before |-> items,
                        confirmed |-> confirmed,
                        remove |-> [d \in confirmed |-> remove_ports(items, d)],
                        n_removed |-> CountRemoved(items, confirmed)]
          /\ items' = items \ UNION {remove_ports(items, d) : d \in confirmed}
    /\ UNCHANGED <<portVars, reduceVars>>

\* Any installation; the graph holds every port of it.
DeadEndsInit ==
    /\ \E inst \in DeadEndInstallations : Installed(inst)
    /\ nodes = BuiltNodes(instances)
    /\ edges = BuiltEdges(instances)
    /\ contraction = BuiltContraction(instances)
    /\ items = PortNodes(instances)
    /\ pipes = "full"
    /\ pc = "idle"
    /\ cycles = {}
    /\ chains = {}
    /\ counters = <<>>
    /\ step = NoStep
    /\ result = NoResult

DeadEndsNext == DecideDeadEnds

SpecDeadEnds == DeadEndsInit /\ [][DeadEndsNext]_vars

\* C30: n_removed equals the number of port nodes removed from the graph,
\* whatever dead ends are confirmed, and a confirmed dead end on an element
\* with more than two ports removes only that port.
RemovedCountIsExact ==
    result.kind = "dead_ends" =>
        /\ result.n_removed = Cardinality(result.before \ items)
        /\ \A d \in result.confirmed :
              Len(ports[parent[d]]) > 2 => result.remove[d] = {d}

====
